---- MODULE Spec2Model ----
(***************************************************************************)
(* A model of src/deferred.js: the Deferred node, its chain tree, the      *)
(* splice adapter of runCallback, and the combinators when and select.     *)
(*                                                                         *)
(* The heap of Deferred objects is the sequence nodes (a node's identity   *)
(* is its index, 0 stands for undefined).  The host event loop is the FIFO *)
(* queue timers of the closures handed to setTimeout(..., 0).  Every       *)
(* method is an operator from a machine state s (a record of the heap, the *)
(* timer queue, the log of listener invocations and the exception in       *)
(* flight) to the machine state after the call; s.exc # NoExc means that   *)
(* the call threw s.exc.                                                   *)
(***************************************************************************)
EXTENDS Integers, Sequences, FiniteSets, TLC

\* ---------------------------------------------------------------- bounds
MaxNodes == 3       \* Spec, SpecAbort: Deferred objects in the tree
MaxCalls == 3       \* Spec, SpecAbort: calls of callback / errback / abort
MaxFns == 1         \* SpecAbort: abort listeners registered on one node
MaxTree == 5        \* SpecSucceed: Deferred objects in the tree
MaxErrTree == 3     \* SpecErr: Deferred objects in the tree
MaxErrCalls == 1    \* SpecErr: calls of callback / errback
MaxSpliceNodes == 4 \* SpecSplice: the user attaches callbacks below this many nodes
MaxInputs == 2      \* SpecWhen: Deferred objects passed to when
MaxListeners == 1   \* SpecWhen: progress listeners on the joined Deferred
MaxSelectCalls == 3 \* SpecSelect: calls of callback and errback on the inputs
MaxFinallyNodes == 2 \* SpecFinally: Deferred objects
MaxFinallyCalls == 2 \* SpecFinally: calls of callback and errback
MaxVal == 1         \* success values are 0..MaxVal

\* ---------------------------------------------------------------- values
Undef == -1         \* undefined
NaNVal == -2        \* NaN, the result of arithmetic on a non-number
NoExc == 0          \* no exception in flight
\* errback called without error as argument!
DefaultErrbackError == 100
\* new Error("Deferred has already been callbacked!")
AlreadyCallbackedError == 101
\* new Error("error in errback, won't continue!")
ErrorInErrback == 102
\* new Error("Finally function already exists")
FinallyExistsError == 103
\* TypeError: errbackFunctions is not a function
NotAFunctionError == 104
\* errors thrown by user callbacks, and passed to errback by the user
E1 == 111
E2 == 112

\* return values of runErrback: true, false, undefined (bare return), that
RTrue == 1
RFalse == 0
RThat == 2

Values == 0..MaxVal
Errors == {E1, E2}

\* A function object: kind k and the variables a, b, c its closure captured.
Fn(k, a, b, c) == [k |-> k, a |-> a, b |-> b, c |-> c]

\* A closure handed to setTimeout.
Timer(k, n, i, e) == [k |-> k, n |-> n, i |-> i, e |-> e]

\* One invocation of a listener: ev is the kind of listener, n the node it
\* is registered on, i its index there, args what it was called with, and
\* tick whether the invocation happened inside a timer of the event loop.
Event(ev, n, i, args, tick) ==
    [ev |-> ev, n |-> n, i |-> i, args |-> args, tick |-> tick]

VARIABLES
    nodes,                  \* the Deferred objects
    timers,                 \* the setTimeout queue
    log,                    \* the listener invocations so far
    defaultErrorHandler,    \* Deferred.defaultErrorHandler is registered
    whens,                  \* the closures of the calls of when
    selects,                \* the closures of the calls of select
    calls,                  \* number of callback / errback / abort calls
    aborts                  \* history: the calls of abort made so far

vars == <<nodes, timers, log, defaultErrorHandler, whens, selects, calls, aborts>>

\* ------------------------------------------------------------ constructor
NewDeferred(id, root, branch) ==
    [callbacked |-> FALSE, callbackArgs |-> <<>>,
     errbacked |-> FALSE, errbackError |-> DefaultErrbackError,
     aborted |-> FALSE, abortArgs |-> <<>>, abortFunctions |-> <<>>,
     nextLinks |-> <<>>, callbackFunctions |-> <<>>, errbackFunctions |-> <<>>,
     progressFunctions |-> <<>>, partialResultFunctions |-> <<>>,
     finallyFunction |-> FALSE,
     root |-> IF root = 0 THEN id ELSE root,
     branch |-> IF branch = 0 THEN id ELSE branch]

\* The machine state the methods work on.
Machine(tick) ==
    [nodes |-> nodes, timers |-> timers, log |-> log,
     deh |-> defaultErrorHandler, whens |-> whens, selects |-> selects,
     exc |-> NoExc, ret |-> Undef, retD |-> FALSE, tick |-> tick]

Returns(s, v) == [s EXCEPT !.ret = v, !.retD = FALSE]
ReturnsDeferred(s, d) == [s EXCEPT !.ret = d, !.retD = TRUE]
Throws(s, e) == [s EXCEPT !.exc = e]
Caught(s) == [s EXCEPT !.exc = NoExc]
Logged(s, ev, n, i, args) ==
    [s EXCEPT !.log = Append(@, Event(ev, n, i, args, s.tick))]
SetTimeout(s, t) == [s EXCEPT !.timers = Append(@, t)]

First(args) == IF Len(args) = 0 THEN Undef ELSE args[1]

\* a variant of getCallbackArgs that returns no arguments
GetCallbackArgsEmpty(s, n) == <<>>

GetCallbackArgs(s, n) == s.nodes[n].callbackArgs

\* a variant of isAborted that never reports an abort
IsAbortedNever(s, n) == FALSE

IsAborted(s, n) == s.nodes[n].aborted

\* ------------------------------------------------- setBranch, reArrangeBranch
RECURSIVE SetBranch(_, _, _), SetBranchLoop(_, _, _)

SetBranchLoop(s, n, i) ==
    IF i > Len(s.nodes[n].nextLinks) THEN s
    ELSE SetBranchLoop(SetBranch(s, s.nodes[n].nextLinks[i], s.nodes[n].nextLinks[i]),
                       n, i + 1)

SetBranch(s, n, newBranch) ==
    LET s1 == [s EXCEPT !.nodes[n].branch = newBranch]
    IN  IF Len(s1.nodes[n].nextLinks) = 1
        THEN SetBranch(s1, s1.nodes[n].nextLinks[1], newBranch)
        ELSE SetBranchLoop(s1, n, 1)

ReArrangeBranch(s, n) ==
    SetBranch(s, s.nodes[n].nextLinks[1], s.nodes[n].nextLinks[1])

\* ------------------------------------------------------- callback, errback
Callback(s, n, args) ==
    IF s.nodes[n].aborted THEN Returns(s, n)
    ELSE IF s.nodes[n].errbacked THEN Returns(s, n)
    ELSE Returns(SetTimeout([s EXCEPT !.nodes[n].callbackArgs = args],
                            Timer("runCallback", n, 0, 0)), n)

Errback(s, n, e) ==
    IF s.nodes[n].aborted THEN Returns(s, n)
    ELSE IF s.nodes[n].errbacked THEN Returns(s, n)
    ELSE Returns(SetTimeout(s, Timer("runErrback", n, 0, e)), n)

\* ------------------------------------------------------------------ abort
RECURSIVE AbortFunctionsLoop(_, _, _, _)
AbortFunctionsLoop(s, n, arguments, i) ==
    IF i > Len(s.nodes[n].abortFunctions) THEN s
    ELSE AbortFunctionsLoop(Logged(s, "abort", n, i, arguments), n, arguments, i + 1)

RunAbortFunctions(s, n, arguments) ==
    IF ~s.nodes[n].callbacked /\ ~s.nodes[n].errbacked
    THEN AbortFunctionsLoop(s, n, arguments, 1)
    ELSE s

RECURSIVE PropagateAbort(_, _, _), PropagateAbortLoop(_, _, _)

PropagateAbortLoop(s, n, i) ==
    IF i > Len(s.nodes[n].nextLinks) THEN s
    ELSE PropagateAbortLoop(PropagateAbort(s, s.nodes[n].nextLinks[i], <<>>), n, i + 1)

PropagateAbort(s, n, arguments) ==
    IF s.nodes[n].aborted THEN s
    ELSE LET s1 == [s EXCEPT !.nodes[n].aborted = TRUE,
                             !.nodes[n].abortArgs = arguments]
             s2 == RunAbortFunctions(s1, n, <<>>)
             s3 == PropagateAbortLoop(s2, n, 1)
         IN  [s3 EXCEPT !.nodes[n].branch = 0, !.nodes[n].root = 0]

Abort(s, n, arguments) ==
    IF s.nodes[n].aborted THEN Returns(s, n)
    ELSE IF s.nodes[n].callbacked THEN Returns(s, n)
    ELSE IF s.nodes[n].errbacked THEN Returns(s, n)
    ELSE Returns(PropagateAbort(s, n, arguments), n)

OnAbort(s, n, abortFunction) ==
    LET s1 == [s EXCEPT !.nodes[n].abortFunctions = Append(@, abortFunction)]
    IN  IF s1.nodes[n].aborted
        THEN Returns(Logged(s1, "abort", n, Len(s1.nodes[n].abortFunctions),
                            s1.nodes[n].abortArgs), n)
        ELSE Returns(s1, n)

\* ------------------------------------------------ progress, partialResult
RECURSIVE ProgressLoop(_, _, _, _, _)
ProgressLoop(s, n, done, outOf, i) ==
    IF i > Len(s.nodes[n].progressFunctions) THEN s
    ELSE ProgressLoop(Logged(s, "progress", n, i, <<done, outOf>>), n, done, outOf, i + 1)

Progress(s, n, done, outOf) ==
    IF s.nodes[n].aborted THEN Returns(s, n)
    ELSE Returns(ProgressLoop(s, n, done, outOf, 1), n)

\* the node's own done and outOf are never assigned: nothing is replayed
OnProgress(s, n, pf) ==
    IF s.nodes[n].aborted THEN Returns(s, n)
    ELSE Returns([s EXCEPT !.nodes[n].progressFunctions = Append(@, pf)], n)

RECURSIVE PartialResultLoop(_, _, _, _)
PartialResultLoop(s, n, partialResult, i) ==
    IF i > Len(s.nodes[n].partialResultFunctions) THEN s
    ELSE PartialResultLoop(Logged(s, "partial", n, i, partialResult), n, partialResult, i + 1)

PartialResult(s, n, partialResult) ==
    IF s.nodes[n].aborted THEN Returns(s, n)
    ELSE Returns(PartialResultLoop(s, n, partialResult, 1), Undef)

OnPartialResult(s, n, prf) ==
    IF s.nodes[n].aborted THEN Returns(s, n)
    ELSE Returns([s EXCEPT !.nodes[n].partialResultFunctions = Append(@, prf)], n)

\* ------------------------------------------------------------- andAtLast
AndAtLast(s, n) ==
    IF s.nodes[n].finallyFunction THEN Throws(s, FinallyExistsError)
    ELSE Returns([s EXCEPT !.nodes[n].finallyFunction = TRUE], Undef)

\* ------------------------------------------------------- then, orIfError
Then(s, n, callbackFunction) ==
    LET nd == s.nodes[n]
        id == Len(s.nodes) + 1
        first == Len(nd.callbackFunctions) = 0
        idx == Len(nd.callbackFunctions) + 1
        next == IF first THEN NewDeferred(id, nd.root, nd.branch)
                         ELSE NewDeferred(id, nd.root, 0)
        Scheduled(s4) ==
            IF nd.aborted
            THEN ReturnsDeferred(SetTimeout(s4, Timer("thenAbort", n, 0, 0)), n)
            ELSE IF nd.errbacked
            THEN ReturnsDeferred(SetTimeout(s4, Timer("thenErrback", n, id, 0)), id)
            ELSE IF nd.callbacked
            THEN ReturnsDeferred(SetTimeout(s4, Timer("thenCallback", n, idx, 0)), id)
            ELSE ReturnsDeferred(s4, id)
        Registered(s3) ==
            Scheduled([s3 EXCEPT !.nodes[n].callbackFunctions = Append(@, callbackFunction)])
        Linked(s2) ==
            IF ~first /\ nd.branch # 0 /\ Len(nd.callbackFunctions) = 1
            THEN Registered(ReArrangeBranch(s2, nd.branch))
            ELSE Registered(s2)
    IN  Linked([s EXCEPT !.nodes = Append([@ EXCEPT ![n].nextLinks = Append(@, id)],
                                          next)])

OrIfError(s, n, errbackFunction) ==
    IF s.nodes[n].aborted THEN ReturnsDeferred(s, n)
    ELSE LET s1 == [s EXCEPT !.nodes[n].errbackFunctions = Append(@, errbackFunction)]
         IN  IF s1.nodes[n].errbacked
             THEN ReturnsDeferred(SetTimeout(s1, Timer("orIfError", n, 0, 0)), n)
             ELSE ReturnsDeferred(s1, n)

\* ---------------------------------------------------- user-supplied functions
\* The success callbacks the user registers: x => x + 1, x => x * 2, one that
\* throws fn.a, and one that returns the Deferred fn.a.
Inc(x) == IF x >= 0 /\ x < DefaultErrbackError THEN x + 1 ELSE NaNVal
Dbl(x) == IF x >= 0 /\ x < DefaultErrbackError THEN x * 2 ELSE NaNVal

\* a variant that stores the values in the order they arrive
SetAtEnd(seq, index, v) == Append(seq, v)

\* returnValues[index] = retVal on a JavaScript array: the holes read undefined
SetAt(seq, index, v) ==
    [k \in 1..(IF index > Len(seq) THEN index ELSE Len(seq)) |->
        IF k = index THEN v ELSE IF k <= Len(seq) THEN seq[k] ELSE Undef]

\* ------------------------------------------------- runErrback, runCallback
RECURSIVE RunErrback(_, _, _), RunCallback(_, _, _)

\* a function body that ends without a return statement after the call s
Undefined(s) == IF s.exc # NoExc THEN s ELSE Returns(s, Undef)

\* errbackFunctions[i](e) of node n
ApplyErrback(s, n, i, e) ==
    LET fn == s.nodes[n].errbackFunctions[i]
        Body(s0) ==
            CASE fn.k = "handler" -> Returns(s0, Undef)
              [] fn.k = "throwingHandler" -> Throws(s0, fn.a)
              [] fn.k = "spliceErr" ->
                    \* lines 218-223: fn.a is the node whose callback returned
                    \* the Deferred fn.c, fn.b is persistentI
                    IF Len(s0.nodes[fn.c].errbackFunctions) = 0
                    THEN Undefined(RunErrback(s0, s0.nodes[fn.a].nextLinks[fn.b], e))
                    ELSE Returns(s0, Undef)
              [] fn.k = "whenErr" ->
                    \* lines 532-534
                    Undefined(RunErrback(s0, s0.whens[fn.a].d, e))
              [] fn.k = "selectErr" ->
                    \* lines 584-590
                    LET Errored(s1) == Returns([s1 EXCEPT !.selects[fn.a].errored = TRUE], Undef)
                    IN  IF ~s0.selects[fn.a].errored
                        THEN Errored(Errback(s0, s0.selects[fn.a].d, e))
                        ELSE Errored(s0)
    IN  Body(Logged(s, "errback", n, i, <<e>>))

\* lines 132-140
RECURSIVE ErrbackFunctionsLoop(_, _, _, _)
ErrbackFunctionsLoop(s, n, e, i) ==
    IF i > Len(s.nodes[n].errbackFunctions) THEN s
    ELSE LET Catch(s1) == IF s1.exc # NoExc
                          THEN Throws(s1, ErrorInErrback)
                          ELSE ErrbackFunctionsLoop(s1, n, e, i + 1)
         IN  Catch(ApplyErrback(s, n, i, e))

Truthy(r) == r = RTrue \/ r = RThat

\* a variant in which a local handler does not count as handling
ErrorHandledNever(s, n) == FALSE

\* line 134: errorHandled = true, once for every local handler
ErrorHandledLocally(s, n) == Len(s.nodes[n].errbackFunctions) > 0

\* lines 146-149: errorHandled = errorHandled || nextLinks[j].runErrback(errbackError)
RECURSIVE NextLinksLoop(_, _, _, _)
NextLinksLoop(s, n, j, errorHandled) ==
    IF j > Len(s.nodes[n].nextLinks) THEN Returns(s, errorHandled)
    ELSE IF Truthy(errorHandled) THEN NextLinksLoop(s, n, j + 1, errorHandled)
    ELSE LET Or(s1) == IF s1.exc # NoExc THEN s1
                       ELSE NextLinksLoop(s1, n, j + 1, s1.ret)
         IN  Or(RunErrback(s, s.nodes[n].nextLinks[j], s.nodes[n].errbackError))

FinallyFunction(s, n) ==
    IF s.nodes[n].finallyFunction THEN Logged(s, "finally", n, 0, <<>>) ELSE s

\* lines 167-176
RunErrbackEnd(s, n, errorHandled) ==
    Returns(FinallyFunction([s EXCEPT !.nodes[n].root = 0, !.nodes[n].branch = 0], n),
            errorHandled)

\* lines 151-164: the default handler, or the diagnostic and the re-raise
Unhandled(s, n) ==
    IF s.deh
    THEN Returns(Logged(s, "default", n, 0, <<s.nodes[n].errbackError>>), Undef)
    ELSE Throws(Logged(s, "diagnostic", n, 0, <<s.nodes[n].errbackError>>),
                s.nodes[n].errbackError)

RunErrback(s, n, e) ==
    IF s.nodes[n].errbacked THEN Returns(s, RThat)
    ELSE IF s.nodes[n].aborted THEN Returns(s, RThat)
    ELSE LET AfterNextLinks(s3) ==
                 IF s3.exc # NoExc THEN s3
                 ELSE IF s3.ret = RFalse THEN Unhandled(s3, n)
                 ELSE RunErrbackEnd(s3, n, s3.ret)
             AfterErrbackFunctions(s2) ==
                 IF s2.exc # NoExc THEN s2
                 ELSE IF ErrorHandledLocally(s2, n) THEN RunErrbackEnd(s2, n, RTrue)
                 ELSE AfterNextLinks(NextLinksLoop(s2, n, 1, RFalse))
         IN  AfterErrbackFunctions(
                 ErrbackFunctionsLoop([s EXCEPT !.nodes[n].errbacked = TRUE,
                                                !.nodes[n].errbackError = e], n, e, 1))

RECURSIVE SelectAbortLoop(_, _, _, _)
SelectAbortLoop(s, sl, winner, i2) ==
    IF i2 > Len(s.selects[sl].args) THEN s
    ELSE IF s.selects[sl].args[i2] # winner
    THEN SelectAbortLoop(Abort(s, s.selects[sl].args[i2], <<>>), sl, winner, i2 + 1)
    ELSE SelectAbortLoop(s, sl, winner, i2 + 1)

\* lines 523-531: the callback when attaches to its argument index
WhenCallback(s, w, index, retVal) ==
    LET Resolve(s3) ==
            IF s3.whens[w].deferredsDone = s3.whens[w].totalDeferreds
            THEN Callback(s3, s3.whens[w].d, s3.whens[w].returnValues)
            ELSE s3
        Broadcast(s2) ==
            Progress(s2, s2.whens[w].d, s2.whens[w].deferredsDone,
                     s2.whens[w].totalDeferreds)
        Partial(s1) == PartialResult(s1, s1.whens[w].d, s1.whens[w].returnValues)
    IN  Returns(Resolve(Broadcast(Partial(
            [s EXCEPT !.whens[w].returnValues = SetAt(@, index, retVal),
                      !.whens[w].deferredsDone = @ + 1]))), Undef)

\* a variant in which the closure of select never finds done set
DoneNever(s, sl) == FALSE

\* line 571: if (done)
Done(s, sl) == s.selects[sl].done

\* lines 570-583: the callback select attaches to its argument persistentI
SelectCallback(s, sl, persistentI, retVal) ==
    IF Done(s, sl) THEN Returns(s, Undef)
    ELSE LET winner == s.selects[sl].args[persistentI]
             AbortOthers(s2) ==
                 SelectAbortLoop([s2 EXCEPT !.selects[sl].winner = winner], sl, winner, 1)
         IN  Returns(AbortOthers(Callback([s EXCEPT !.selects[sl].done = TRUE],
                                          s.selects[sl].d, <<retVal>>)), Undef)

\* callbackFunctions[i].apply(that, arguments) of node n
ApplyCallback(s, n, i, arguments) ==
    LET fn == s.nodes[n].callbackFunctions[i]
        Body(s0) ==
            CASE fn.k = "inc" -> Returns(s0, Inc(First(arguments)))
              [] fn.k = "dbl" -> Returns(s0, Dbl(First(arguments)))
              [] fn.k = "throw" -> Throws(s0, fn.a)
              [] fn.k = "return" -> ReturnsDeferred(s0, fn.a)
              [] fn.k = "identity" -> Returns(s0, First(arguments))
              [] fn.k = "splice" ->
                    \* lines 215-217: fn.a is the node whose callback returned
                    \* the Deferred fn.c, fn.b is persistentI
                    Undefined(RunCallback(s0, s0.nodes[fn.a].nextLinks[fn.b],
                                          GetCallbackArgs(s0, fn.c)))
              [] fn.k = "when" -> WhenCallback(s0, fn.a, fn.b, First(arguments))
              [] fn.k = "select" -> SelectCallback(s0, fn.a, fn.b, First(arguments))
    IN  Body(Logged(s, "callback", n, i, arguments))

\* lines 211-224: the callback of node n at index i returned a Deferred
Splice(s, n, i, persistentDeferred) ==
    LET Chained(s1) == OrIfError(s1, s1.ret, Fn("spliceErr", n, i, persistentDeferred))
    IN  Chained(Then(s, persistentDeferred, Fn("splice", n, i, persistentDeferred)))

\* a variant that hands nothing on to the next link
ReturnValueDropped(s) == <<>>

\* line 226: the arguments of nextLinks[i].runCallback
ReturnValueFromCallback(s) == <<s.ret>>

\* a variant of runCallback that does not look for the finally hook
HasFinallyNever(s, n) == FALSE

\* line 189: if (finallyFunction)
HasFinally(s, n) == s.nodes[n].finallyFunction

\* lines 195-233
RECURSIVE CallbackFunctionsLoop(_, _, _, _)
CallbackFunctionsLoop(s, n, arguments, i) ==
    IF i > Len(s.nodes[n].callbackFunctions) THEN s
    ELSE IF IsAborted(s, s.nodes[n].nextLinks[i])
    THEN CallbackFunctionsLoop(s, n, arguments, i + 1)
    ELSE LET next == s.nodes[n].nextLinks[i]
             Continue(s3) == IF s3.exc # NoExc THEN s3
                             ELSE CallbackFunctionsLoop(s3, n, arguments, i + 1)
             Catch(s2) == IF s2.exc # NoExc
                          THEN RunErrback(Caught(s2), next, s2.exc)
                          ELSE s2
             Try(s1) == IF s1.exc # NoExc THEN s1
                        ELSE IF s1.retD THEN Splice(s1, n, i, s1.ret)
                        ELSE RunCallback(s1, next, ReturnValueFromCallback(s1))
         IN  Continue(Catch(Try(ApplyCallback(s, n, i, arguments))))

RunCallback(s, n, arguments) ==
    IF s.nodes[n].callbacked THEN Throws(s, AlreadyCallbackedError)
    ELSE IF s.nodes[n].errbacked THEN Returns(s, Undef)
    ELSE IF HasFinally(s, n)
    THEN Returns(FinallyFunction([s EXCEPT !.nodes[n].callbacked = TRUE,
                                           !.nodes[n].callbackArgs = arguments], n), Undef)
    ELSE LET AfterLoop(s2) ==
                 IF s2.exc # NoExc THEN s2
                 ELSE Returns([s2 EXCEPT !.nodes[n].root = 0,
                                         !.nodes[n].branch = 0], Undef)
         IN  AfterLoop(CallbackFunctionsLoop(
                 [s EXCEPT !.nodes[n].callbacked = TRUE,
                           !.nodes[n].callbackArgs = arguments], n, arguments, 1))

\* ------------------------------------------------------------- when, select
RECURSIVE WhenLoop(_, _, _, _)
WhenLoop(s, w, args, i) ==
    IF i > Len(args) THEN s
    ELSE LET s1 == Then(s, args[i], Fn("when", w, i, 0))
             s2 == OrIfError(s1, s1.ret, Fn("whenErr", w, 0, 0))
         IN  WhenLoop(s2, w, args, i + 1)

When(s, args) ==
    LET d == Len(s.nodes) + 1
        w == Len(s.whens) + 1
        s1 == [s EXCEPT !.nodes = Append(@, NewDeferred(d, 0, 0)),
                        !.whens = Append(@, [d |-> d, returnValues |-> <<>>,
                                             totalDeferreds |-> Len(args),
                                             deferredsDone |-> 0])]
    IN  ReturnsDeferred(WhenLoop(s1, w, args, 1), d)

RECURSIVE SelectLoop(_, _, _, _)
SelectLoop(s, sl, args, i) ==
    IF i > Len(args) THEN s
    ELSE LET s1 == Then(s, args[i], Fn("select", sl, i, 0))
             s2 == OrIfError(s1, s1.ret, Fn("selectErr", sl, 0, 0))
         IN  SelectLoop(s2, sl, args, i + 1)

Select(s, args) ==
    LET d == Len(s.nodes) + 1
        sl == Len(s.selects) + 1
        s1 == [s EXCEPT !.nodes = Append(@, NewDeferred(d, 0, 0)),
                        !.selects = Append(@, [d |-> d, done |-> FALSE,
                                               winner |-> 0, args |-> args,
                                               errored |-> FALSE])]
    IN  Then(SelectLoop(s1, sl, args, 1), d, Fn("identity", 0, 0, 0))

\* ------------------------------------------------------------- event loop
\* lines 355-364: errbackFunctions(errbackError) calls the array itself, which
\* throws a TypeError that the catch logs; no handler is invoked
OrIfErrorTimer(s, n) ==
    IF s.nodes[n].aborted THEN s
    ELSE Caught(Throws(s, NotAFunctionError))

\* a variant that calls a late callback without the recorded arguments
LateArgumentsMissing(s, n) == <<>>

\* line 340: callbackFunction.apply(that, callbackArgs)
LateArguments(s, n) == s.nodes[n].callbackArgs

\* a variant that hands the outcome of a late callback to its child
LateCallbackResolves(s, n, i) ==
    LET Forward(s1) == IF s1.exc # NoExc THEN s1
                       ELSE RunCallback(s1, s1.nodes[n].nextLinks[i], <<s1.ret>>)
    IN  Forward(ApplyCallback(s, n, i, LateArguments(s, n)))

\* lines 339-341: the timer only applies the callback
LateCallback(s, n, i) == ApplyCallback(s, n, i, LateArguments(s, n))

RunTimer(s, t) ==
    CASE t.k = "runCallback" -> RunCallback(s, t.n, s.nodes[t.n].callbackArgs)
      [] t.k = "runErrback" -> RunErrback(s, t.n, t.e)
      [] t.k = "thenAbort" ->
            PropagateAbort(s, s.nodes[t.n].nextLinks[Len(s.nodes[t.n].nextLinks)], <<>>)
      [] t.k = "thenErrback" -> RunErrback(s, t.i, s.nodes[t.n].errbackError)
      [] t.k = "thenCallback" -> LateCallback(s, t.n, t.i)
      [] t.k = "orIfError" -> OrIfErrorTimer(s, t.n)

\* an exception that leaves a timer is reported by the host and the loop goes on
Uncaught(s) ==
    IF s.exc # NoExc THEN Caught(Logged(s, "uncaught", 0, 0, <<s.exc>>)) ELSE s

Commit(s) ==
    /\ nodes' = s.nodes
    /\ timers' = s.timers
    /\ log' = s.log
    /\ defaultErrorHandler' = s.deh
    /\ whens' = s.whens
    /\ selects' = s.selects

\* ----------------------------------------------------------------- actions
Ids == 1..Len(nodes)

Pending(nd) == ~nd.callbacked /\ ~nd.errbacked /\ ~nd.aborted

RECURSIVE Descendants(_, _)
Descendants(ns, n) ==
    UNION {{ns[n].nextLinks[i]} \cup Descendants(ns, ns[n].nextLinks[i]) :
           i \in 1..Len(ns[n].nextLinks)}

InitWith(ns, handlers) ==
    /\ nodes = ns
    /\ timers = <<>>
    /\ log = <<>>
    /\ defaultErrorHandler \in handlers
    /\ whens = <<>>
    /\ selects = <<>>
    /\ calls = 0
    /\ aborts = <<>>

Tick ==
    /\ timers # <<>>
    /\ Commit(Uncaught(RunTimer([Machine(TRUE) EXCEPT !.timers = Tail(timers)],
                                Head(timers))))
    /\ UNCHANGED <<calls, aborts>>

UserThen(n, fn, max) ==
    /\ Len(nodes) < max
    /\ Commit(Then(Machine(FALSE), n, fn))
    /\ UNCHANGED <<calls, aborts>>

UserCallback(n, args, max) ==
    /\ calls < max
    /\ Commit(Callback(Machine(FALSE), n, args))
    /\ calls' = calls + 1
    /\ UNCHANGED aborts

UserErrback(n, e, max) ==
    /\ calls < max
    /\ Commit(Errback(Machine(FALSE), n, e))
    /\ calls' = calls + 1
    /\ UNCHANGED aborts

\* abort(args) on node n; the history records the tree the call found
UserAbort(n, args) ==
    /\ calls < MaxCalls
    /\ LET s == Abort(Machine(FALSE), n, args)
           sub == Descendants(nodes, n) \cup {n}
       IN  /\ Commit(s)
           /\ aborts' = Append(aborts,
                 [n |-> n, args |-> args,
                  pending |-> Pending(nodes[n]),
                  sub |-> sub,
                  allPending |-> \A m \in sub : Pending(nodes[m]),
                  cbs |-> {<<m, i>> \in sub \X (1..Len(nodes)) :
                              i <= Len(nodes[m].callbackFunctions)},
                  abs |-> UNION {{<<m, i>> : i \in 1..Len(nodes[m].abortFunctions)} :
                                 m \in sub},
                  from |-> Len(log), to |-> Len(s.log)])
    /\ calls' = calls + 1

UserOnAbort(n) ==
    /\ Len(nodes[n].abortFunctions) < MaxFns
    /\ Commit(OnAbort(Machine(FALSE), n, Fn("listener", 0, 0, 0)))
    /\ UNCHANGED <<calls, aborts>>

\* the user registers one handler on a node
UserOrIfError(n, fn) ==
    /\ nodes[n].errbackFunctions = <<>>
    /\ Commit(OrIfError(Machine(FALSE), n, fn))
    /\ UNCHANGED <<calls, aborts>>

UserAndAtLast(n) ==
    /\ ~nodes[n].finallyFunction
    /\ Commit(AndAtLast(Machine(FALSE), n))
    /\ UNCHANGED <<calls, aborts>>

RegisterDefaultErrorHandler ==
    /\ ~defaultErrorHandler
    /\ defaultErrorHandler' = TRUE
    /\ UNCHANGED <<nodes, timers, log, whens, selects, calls, aborts>>

\* ------------------------------------------------------------------ Spec
\* One tree under the Deferred 1: the user attaches callbacks anywhere and
\* calls callback, errback and abort on any node, between the ticks of the
\* event loop.
Init == InitWith(<<NewDeferred(1, 0, 0)>>, {FALSE})

Next ==
    \/ Tick
    \/ \E n \in Ids : UserThen(n, Fn("inc", 0, 0, 0), MaxNodes)
    \/ \E n \in Ids : UserCallback(n, <<0>>, MaxCalls)
    \/ \E n \in Ids : UserErrback(n, E2, MaxCalls)
    \/ \E n \in Ids : UserAbort(n, <<1>>)

Spec == Init /\ [][Next]_vars

\* ------------------------------------------------------------- SpecAbort
\* Spec, with abort listeners.
NextAbort ==
    \/ Tick
    \/ \E n \in Ids : UserThen(n, Fn("inc", 0, 0, 0), MaxNodes)
    \/ \E n \in Ids : UserCallback(n, <<0>>, MaxCalls)
    \/ \E n \in Ids : UserAbort(n, <<1>>)
    \/ \E n \in Ids : UserOnAbort(n)

SpecAbort == Init /\ [][NextAbort]_vars

\* ----------------------------------------------------------- SpecSucceed
\* One tree under the Deferred 1, with callbacks that return plain values:
\* the user attaches them anywhere, before and after the one call of
\* callback on the Deferred 1 and before and after its propagation.
PlainCallbacks == {Fn("inc", 0, 0, 0), Fn("dbl", 0, 0, 0)}

NextSucceed ==
    \/ Tick
    \/ \E n \in Ids, fn \in PlainCallbacks : UserThen(n, fn, MaxTree)
    \/ \E x \in Values : UserCallback(1, <<x>>, 1)

SpecSucceed == Init /\ [][NextSucceed]_vars

\* --------------------------------------------------------------- SpecErr
\* One tree under the Deferred 1, with callbacks that return or throw and
\* error handlers that return, one on a node at most: the user fails any
\* node, or succeeds the Deferred 1, in a program that has registered the
\* default error handler at its start or not at all.
InitErr == InitWith(<<NewDeferred(1, 0, 0)>>, BOOLEAN)

NextErr ==
    \/ Tick
    \/ \E n \in Ids, fn \in {Fn("inc", 0, 0, 0), Fn("throw", E1, 0, 0)} :
          UserThen(n, fn, MaxErrTree)
    \/ \E n \in Ids : UserOrIfError(n, Fn("handler", 0, 0, 0))
    \/ UserErrback(1, E2, MaxErrCalls)
    \/ UserCallback(1, <<0>>, MaxErrCalls)

SpecErr == InitErr /\ [][NextErr]_vars

\* ------------------------------------------------------------ SpecSplice
\* The Deferred 1 with its tree and a second Deferred 2 (inner) that
\* callbacks of 1 return.  The user attaches callbacks anywhere and handlers
\* on nodes that have not failed yet, succeeds 1 once and resolves inner
\* once, by callback or by errback, before or after 1 has returned it, in a
\* program with or without the default error handler.
InitSplice == InitWith(<<NewDeferred(1, 0, 0), NewDeferred(2, 0, 0)>>, BOOLEAN)

\* the Deferred 1 has been given its result
Succeeded1 == nodes[1].callbackArgs # <<>>
\* inner has been resolved by the user
ResolvedInner == calls > (IF Succeeded1 THEN 1 ELSE 0)

NextSplice ==
    \/ Tick
    \/ UserThen(1, Fn("return", 2, 0, 0), MaxSpliceNodes)
    \/ \E n \in Ids : UserThen(n, Fn("inc", 0, 0, 0), MaxSpliceNodes)
    \/ \E n \in Ids : ~nodes[n].errbacked /\ UserOrIfError(n, Fn("handler", 0, 0, 0))
    \/ ~Succeeded1 /\ UserCallback(1, <<0>>, calls + 1)
    \/ \E y \in Values : ~ResolvedInner /\ UserCallback(2, <<y>>, calls + 1)
    \/ ~ResolvedInner /\ UserErrback(2, E2, calls + 1)

SpecSplice == InitSplice /\ [][NextSplice]_vars

\* -------------------------------------------------------------- SpecWhen
\* One to MaxInputs Deferred objects and one call of when over all of them,
\* in their order.  The user succeeds each input once, with one value or
\* with two, before or after the call of when; registers progress listeners
\* on the joined Deferred before the first completion reaches it; and
\* attaches a callback to it at any time.
InitWhen ==
    \E N \in 1..MaxInputs : InitWith([i \in 1..N |-> NewDeferred(i, 0, 0)], {FALSE})

\* the arguments of the calls of callback on the inputs
WhenArgs == {<<x>> : x \in Values} \cup {<<MaxVal, 0>>}

\* the Deferred objects handed to when: all that exist before the call
Inputs == 1..(IF whens = <<>> THEN Len(nodes) ELSE whens[1].totalDeferreds)

UserWhen ==
    /\ whens = <<>>
    /\ Commit(When(Machine(FALSE), [i \in 1..Len(nodes) |-> i]))
    /\ UNCHANGED <<calls, aborts>>

UserOnProgress ==
    /\ whens # <<>>
    /\ whens[1].deferredsDone = 0
    /\ Len(nodes[whens[1].d].progressFunctions) < MaxListeners
    /\ Commit(OnProgress(Machine(FALSE), whens[1].d, Fn("listener", 0, 0, 0)))
    /\ UNCHANGED <<calls, aborts>>

NextWhen ==
    \/ Tick
    \/ UserWhen
    \/ UserOnProgress
    \/ /\ whens # <<>>
       /\ nodes[whens[1].d].callbackFunctions = <<>>
       /\ UserThen(whens[1].d, Fn("identity", 0, 0, 0), Len(nodes) + 1)
    \/ \E i \in Inputs, args \in WhenArgs :
          nodes[i].callbackArgs = <<>> /\ UserCallback(i, args, calls + 1)

SpecWhen == InitWhen /\ [][NextWhen]_vars

\* ----------------------------------------------------------- SpecWhenErr
\* SpecWhen with inputs that fail: the user resolves each input once, by
\* callback or by errback, registers progress and partial-result listeners
\* and one error handler on the joined Deferred at any time, in a program
\* with or without the default error handler.
InitWhenErr ==
    \E N \in 1..MaxInputs : InitWith([i \in 1..N |-> NewDeferred(i, 0, 0)], BOOLEAN)

\* neither callback nor errback has been called on node n
Unresolved(n) ==
    /\ Pending(nodes[n])
    /\ \A k \in DOMAIN timers : timers[k].n # n

UserOnPartialResult ==
    /\ whens # <<>>
    /\ Len(nodes[whens[1].d].partialResultFunctions) < MaxListeners
    /\ Commit(OnPartialResult(Machine(FALSE), whens[1].d, Fn("listener", 0, 0, 0)))
    /\ UNCHANGED <<calls, aborts>>

NextWhenErr ==
    \/ Tick
    \/ UserWhen
    \/ UserOnPartialResult
    \/ /\ whens # <<>>
       /\ Len(nodes[whens[1].d].progressFunctions) < MaxListeners
       /\ Commit(OnProgress(Machine(FALSE), whens[1].d, Fn("listener", 0, 0, 0)))
       /\ UNCHANGED <<calls, aborts>>
    \/ whens # <<>> /\ UserOrIfError(whens[1].d, Fn("handler", 0, 0, 0))
    \/ \E i \in Inputs : Unresolved(i) /\ UserCallback(i, <<0>>, calls + 1)
    \/ \E i \in Inputs, e \in Errors : Unresolved(i) /\ UserErrback(i, e, calls + 1)

SpecWhenErr == InitWhenErr /\ [][NextWhenErr]_vars

\* ------------------------------------------------------------ SpecSelect
\* One to MaxInputs Deferred objects and one call of select over all of
\* them.  The user calls callback or errback on an input on which neither
\* has taken effect, registers one abort listener on an input and one
\* callback on the Deferred that select returned.
Resolvable(n) ==
    /\ ~nodes[n].callbacked /\ ~nodes[n].errbacked
    /\ \A k \in DOMAIN timers : timers[k].n # n

\* the arguments of the one call of select
SelectInputs == 1..(IF selects = <<>> THEN Len(nodes) ELSE Len(selects[1].args))

\* line 596: the Deferred select returns is the child of its d
SelectResult == nodes[selects[1].d].nextLinks[1]

UserSelect ==
    /\ selects = <<>>
    /\ Commit(Select(Machine(FALSE), [i \in 1..Len(nodes) |-> i]))
    /\ UNCHANGED <<calls, aborts>>

NextSelect ==
    \/ Tick
    \/ UserSelect
    \/ \E i \in SelectInputs : nodes[i].abortFunctions = <<>> /\ UserOnAbort(i)
    \/ /\ selects # <<>>
       /\ nodes[SelectResult].callbackFunctions = <<>>
       /\ UserThen(SelectResult, Fn("inc", 0, 0, 0), Len(nodes) + 1)
    \/ \E i \in SelectInputs, x \in Values :
          Resolvable(i) /\ UserCallback(i, <<x>>, MaxSelectCalls)
    \/ \E i \in SelectInputs : Resolvable(i) /\ UserErrback(i, E2, MaxSelectCalls)

SpecSelect == InitWhen /\ [][NextSelect]_vars

\* ----------------------------------------------------------- SpecFinally
\* One tree under the Deferred 1 with finally hooks: the user attaches
\* callbacks, one handler and one hook to any node and calls callback and
\* errback on the Deferred 1, any number of times up to the bound, in a
\* program with or without the default error handler.
NextFinally ==
    \/ Tick
    \/ \E n \in Ids : UserThen(n, Fn("inc", 0, 0, 0), MaxFinallyNodes)
    \/ \E n \in Ids : UserAndAtLast(n)
    \/ \E n \in Ids : UserOrIfError(n, Fn("handler", 0, 0, 0))
    \/ UserCallback(1, <<0>>, MaxFinallyCalls)
    \/ UserErrback(1, E2, MaxFinallyCalls)

SpecFinally == InitErr /\ [][NextFinally]_vars

\* --------------------------------------------------------------- claims
\* C1: every node is in at most one of the terminal states Callbacked,
\* Errbacked, Aborted (the flags are never reset, so a node that is in one
\* and enters another is in two of them).
C1_AtMostOneTerminalState ==
    \A n \in Ids :
        /\ ~(nodes[n].callbacked /\ nodes[n].errbacked)
        /\ ~(nodes[n].callbacked /\ nodes[n].aborted)
        /\ ~(nodes[n].errbacked /\ nodes[n].aborted)

\* the log entries a call of abort made while it ran
DuringAbort(a) == (a.from + 1)..a.to
\* the log entries made since a call of abort began
SinceAbort(a) == (a.from + 1)..Len(log)

Range(f) == {f[x] : x \in DOMAIN f}

AllAborted(a) == \A m \in a.sub : nodes[m].aborted
NoCallbackSince(a) ==
    \A k \in SinceAbort(a) :
        log[k].ev = "callback" => <<log[k].n, log[k].i>> \notin a.cbs

C5_AbortListenersObserveArgs ==
    \A a \in Range(aborts) :
        a.pending =>
            \A l \in a.abs :
                \E k \in DuringAbort(a) :
                    log[k] = Event("abort", l[1], l[2], a.args, FALSE)

\* the invocations so far of the success callback i of node n
CallbackEvents(lg, n, i) ==
    {k \in DOMAIN lg : lg[k].ev = "callback" /\ lg[k].n = n /\ lg[k].i = i}

\* C2: a callback attached to a node, before succeed, after succeed in the
\* same turn or after the propagation tick, is invoked at most once, only
\* inside a tick of the event loop and with the recorded result, and it has
\* been invoked exactly once when the node is Callbacked and no timer is left.
C2_CallbackRunsOnceInLaterTick ==
    \A n \in Ids : \A i \in 1..Len(nodes[n].callbackFunctions) :
        /\ Cardinality(CallbackEvents(log, n, i)) <= 1
        /\ \A k \in CallbackEvents(log, n, i) :
               log[k].tick /\ log[k].args = nodes[n].callbackArgs
        /\ (nodes[n].callbacked /\ timers = <<>>) =>
               Cardinality(CallbackEvents(log, n, i)) = 1

\* C2 witness: the Deferred 1 is Callbacked, one of its callbacks was attached
\* before its propagation (the child is Callbacked) and one after it (the
\* child is Pending), and both have been invoked.
C2_Witness ==
    /\ nodes[1].callbacked /\ timers = <<>>
    /\ \E i, j \in 1..Len(nodes[1].nextLinks) :
           /\ nodes[nodes[1].nextLinks[i]].callbacked
           /\ Pending(nodes[nodes[1].nextLinks[j]])
           /\ CallbackEvents(log, 1, i) # {}
           /\ CallbackEvents(log, 1, j) # {}

ParentIn(ns, c) ==
    CHOOSE p \in 1..Len(ns) : \E i \in 1..Len(ns[p].nextLinks) : ns[p].nextLinks[i] = c
IndexIn(ns, c) ==
    CHOOSE i \in 1..Len(ns[ParentIn(ns, c)].nextLinks) : ns[ParentIn(ns, c)].nextLinks[i] = c
CallbackOf(ns, c) == ns[ParentIn(ns, c)].callbackFunctions[IndexIn(ns, c)]

\* x => x + 1 and x => x * 2 as functions
PlainApply(fn, x) == IF fn.k = "inc" THEN Inc(x) ELSE Dbl(x)

\* fk(...f1(x)) for the node c at the end of the chain f1, ..., fk
RECURSIVE Composed(_, _)
Composed(ns, c) ==
    IF c = 1 THEN First(ns[1].callbackArgs)
    ELSE PlainApply(CallbackOf(ns, c), Composed(ns, ParentIn(ns, c)))

\* every callback of a node below 1 ran after the callback that feeds the
\* node, and received what that callback returned
ChainOrder(ns, lg) ==
    \A k \in DOMAIN lg :
        (lg[k].ev = "callback" /\ lg[k].n # 1) =>
            \E j \in 1..(k - 1) :
                /\ j \in CallbackEvents(lg, ParentIn(ns, lg[k].n), IndexIn(ns, lg[k].n))
                /\ lg[k].args = <<PlainApply(CallbackOf(ns, lg[k].n), First(lg[j].args))>>

\* C3: callbacks run in chain order, each receiving the return value of the
\* previous one (the first receiving x), and the propagation of succeed(x)
\* leaves every node that was attached before it Callbacked with
\* fk(...f1(x)), each callback having run.
C3_ChainRunsInOrder ==
    [][/\ ChainOrder(nodes', log')
       /\ \A k \in DOMAIN log' :
              (log'[k].ev = "callback" /\ log'[k].n = 1) =>
                  log'[k].args = nodes'[1].callbackArgs
       /\ (~nodes[1].callbacked /\ nodes'[1].callbacked) =>
              \A c \in Ids :
                 /\ nodes'[c].callbacked
                 /\ nodes'[c].callbackArgs = <<Composed(nodes', c)>>
                 /\ \A i \in 1..Len(nodes[c].callbackFunctions) :
                        CallbackEvents(log', c, i) # {}]_vars

\* C3 witness: d.then(x => x + 1).then(x => x * 2).then(x => x + 1) with
\* succeed(1): the last child is Callbacked with 5.
C3_Witness ==
    /\ Len(nodes) >= 4
    /\ nodes[1].nextLinks = <<2>> /\ nodes[2].nextLinks = <<3>> /\ nodes[3].nextLinks = <<4>>
    /\ nodes[1].callbackFunctions[1].k = "inc"
    /\ nodes[2].callbackFunctions[1].k = "dbl"
    /\ nodes[3].callbackFunctions[1].k = "inc"
    /\ nodes[1].callbackArgs = <<1>>
    /\ nodes[4].callbacked /\ nodes[4].callbackArgs = <<5>>

\* ------------------------------------------------------ the error walk
Subtree(ns, n) == Descendants(ns, n) \cup {n}
HasHandler(ns, n) == ns[n].errbackFunctions # <<>>
Leaves(ns, n) == {m \in Subtree(ns, n) : ns[m].nextLinks = <<>>}
\* no node of the subtree of n has an orIfError handler
NoHandlerBelow(ns, n) == \A m \in Subtree(ns, n) : ~HasHandler(ns, m)
\* the step makes node n Errbacked
Fails(n) == ~nodes[n].errbacked /\ nodes'[n].errbacked
\* the default handler invocations and the re-raise diagnostics of the step
UnhandledReports ==
    {k \in (Len(log) + 1)..Len(log') : log'[k].ev \in {"default", "diagnostic"}}

\* C6: when a node with no local handler and two or more children becomes
\* Errbacked and one of its child subtrees contains no handler, the error
\* is treated as unhandled: the default handler is invoked, or the
\* diagnostic is emitted and the error re-raised.
C6_UnhandledUnlessEveryChildHandles ==
    [][\A n \in Ids :
          (/\ Fails(n)
           /\ ~HasHandler(nodes, n)
           /\ Len(nodes[n].nextLinks) >= 2
           /\ \E i \in 1..Len(nodes[n].nextLinks) :
                  NoHandlerBelow(nodes, nodes[n].nextLinks[i]))
          => UnhandledReports # {}]_vars

\* C7: when a node fails and every leaf reachable from it has an orIfError
\* handler, the walk below the node neither invokes the default handler
\* nor re-raises the error.
C7_HandledWhenEveryLeafHandles ==
    [][\A n \in Ids :
          (Fails(n) /\ \A l \in Leaves(nodes, n) : HasHandler(nodes, l))
          => \A k \in UnhandledReports : log'[k].n \notin Subtree(nodes, n)]_vars

\* C7 witness: with the default handler registered, a node without a handler
\* of its own and two children, each a leaf with a handler, has failed; a
\* handler has run and the default handler has not.
C7_Witness ==
    /\ defaultErrorHandler
    /\ nodes[1].errbacked /\ ~HasHandler(nodes, 1)
    /\ Len(nodes[1].nextLinks) = 2
    /\ \A l \in Leaves(nodes, 1) : HasHandler(nodes, l)
    /\ \E k \in DOMAIN log : log[k].ev = "errback"
    /\ \A k \in DOMAIN log : log[k].ev # "default"

\* ------------------------------------------------------------- splicing
\* the adapters registered on a Deferred that a success callback returned:
\* fn.a is the node whose callback returned fn.c, fn.b the callback's index
SpliceAdapters ==
    {fn \in UNION {Range(nodes[m].callbackFunctions) : m \in Ids} : fn.k = "splice"}
\* the child that corresponds to the callback that returned the Deferred
SpliceChild(fn) == nodes[fn.a].nextLinks[fn.b]
\* no success callback of node n has been invoked
NeverInvoked(n) == \A k \in DOMAIN log : ~(log[k].ev = "callback" /\ log[k].n = n)

\* C8: the child of a callback that returned inner is Pending while inner is
\* Pending; once inner has failed and no timer is left, the child is
\* Errbacked with inner's error if inner has no handler of its own, and
\* otherwise it is Pending and none of its callbacks has been invoked.
C8_InnerFailureReachesChild ==
    \A fn \in SpliceAdapters :
        /\ Pending(nodes[fn.c]) => Pending(nodes[SpliceChild(fn)])
        /\ (nodes[fn.c].errbacked /\ timers = <<>>) =>
              IF HasHandler(nodes, fn.c)
              THEN Pending(nodes[SpliceChild(fn)]) /\ NeverInvoked(SpliceChild(fn))
              ELSE /\ nodes[SpliceChild(fn)].errbacked
                   /\ nodes[SpliceChild(fn)].errbackError = nodes[fn.c].errbackError

\* C9: the child of a callback that returned inner is Callbacked only with
\* the one value y inner succeeded with, as after a callback that returns
\* y; its callbacks are invoked with y only; and once inner is Callbacked
\* and no timer is left, the child is Callbacked and each of its callbacks
\* has been invoked once.
C9_SpliceIdentity ==
    \A fn \in SpliceAdapters :
        LET child == SpliceChild(fn)
            y == First(nodes[fn.c].callbackArgs)
        IN  /\ nodes[child].callbacked =>
                  /\ nodes[fn.c].callbacked
                  /\ Len(nodes[fn.c].callbackArgs) = 1
                  /\ nodes[child].callbackArgs = <<y>>
            /\ \A i \in 1..Len(nodes[child].callbackFunctions) :
                  /\ \A k \in CallbackEvents(log, child, i) : log[k].args = <<y>>
                  /\ (nodes[fn.c].callbacked /\ timers = <<>>) =>
                         Cardinality(CallbackEvents(log, child, i)) = 1
            /\ (nodes[fn.c].callbacked /\ timers = <<>>) => nodes[child].callbacked

\* C9 witness: inner has succeeded with 1, the child of the callback that
\* returned it is Callbacked with 1, and the callback x => x + 1 of the child
\* has left its own child Callbacked with 2.
C9_Witness ==
    \E fn \in SpliceAdapters :
        /\ nodes[fn.c].callbackArgs = <<1>>
        /\ nodes[SpliceChild(fn)].callbacked
        /\ nodes[SpliceChild(fn)].callbackArgs = <<1>>
        /\ \E i \in 1..Len(nodes[SpliceChild(fn)].nextLinks) :
               /\ CallbackEvents(log, SpliceChild(fn), i) # {}
               /\ nodes[nodes[SpliceChild(fn)].nextLinks[i]].callbackArgs = <<2>>

\* ----------------------------------------------------------------- when
\* what the progress listener l of node n has been called with, in order
ProgressSeen(n, l) ==
    LET seen == SelectSeq(log, LAMBDA e : e.ev = "progress" /\ e.n = n /\ e.i = l)
    IN  [k \in DOMAIN seen |-> seen[k].args]
\* the inputs of the call w of when that are Callbacked
Succeeded(w) == {i \in 1..w.totalDeferreds : nodes[i].callbacked}
\* callback has been called on node n or its propagation has run
Resolving(n) ==
    \/ ~Pending(nodes[n])
    \/ nodes[n].callbackArgs # <<>>
    \/ \E k \in DOMAIN timers : timers[k].n = n

\* C10: for the Deferred J that when(d1, ..., dN) returned: J is not
\* resolved, nor is its resolution scheduled, before every input is
\* Callbacked; J never fails; J is Callbacked with the first success value
\* of each input in input order, each callback of J is invoked at most once
\* and with these values, and once every input is Callbacked and no timer
\* is left J is Callbacked and each of its callbacks has been invoked; and
\* every progress listener of J has observed (1, N), ..., (k, N) after k
\* completions, k being the number of Callbacked inputs when no timer is
\* left.
C10_WhenJoinsInInputOrder ==
    whens # <<>> =>
        LET w == whens[1]
            J == whens[1].d
            N == whens[1].totalDeferreds
            values == [i \in 1..N |-> First(nodes[i].callbackArgs)]
        IN  /\ Resolving(J) => Succeeded(w) = 1..N
            /\ ~nodes[J].errbacked /\ ~nodes[J].aborted
            /\ \A k \in DOMAIN log : log[k].ev # "uncaught"
            /\ nodes[J].callbacked => nodes[J].callbackArgs = values
            /\ \A i \in 1..Len(nodes[J].callbackFunctions) :
                  /\ Cardinality(CallbackEvents(log, J, i)) <= 1
                  /\ \A k \in CallbackEvents(log, J, i) : log[k].args = values
                  /\ (Succeeded(w) = 1..N /\ timers = <<>>) => CallbackEvents(log, J, i) # {}
            /\ (Succeeded(w) = 1..N /\ timers = <<>>) => nodes[J].callbacked
            /\ w.deferredsDone <= Cardinality(Succeeded(w))
            /\ timers = <<>> => w.deferredsDone = Cardinality(Succeeded(w))
            /\ \A l \in 1..Len(nodes[J].progressFunctions) :
                  ProgressSeen(J, l) = [k \in 1..w.deferredsDone |-> <<k, N>>]

\* C10 witness: when(d1, d2) where d2 completed before d1 and with another
\* first value: J is Callbacked with the two values in input order, its
\* callback has been invoked, and its progress listener has observed (1, 2)
\* and then (2, 2).
C10_Witness ==
    /\ whens # <<>>
    /\ whens[1].totalDeferreds = 2
    /\ \E k1, k2 \in DOMAIN log :
           /\ k2 < k1
           /\ log[k1].ev = "callback" /\ log[k1].n = 1
           /\ log[k2].ev = "callback" /\ log[k2].n = 2
    /\ nodes[1].callbackArgs = <<MaxVal, 0>>
    /\ nodes[2].callbackArgs = <<0>>
    /\ nodes[whens[1].d].callbacked
    /\ nodes[whens[1].d].callbackArgs = <<MaxVal, 0>>
    /\ CallbackEvents(log, whens[1].d, 1) # {}
    /\ Len(nodes[whens[1].d].progressFunctions) = 1
    /\ ProgressSeen(whens[1].d, 1) = <<(<<1, 2>>), (<<2, 2>>)>>

\* the listener invocations the step adds on node n
NewEvents(n) == {k \in (Len(log) + 1)..Len(log') : log'[k].n = n}

\* C11: the Deferred J that when returned becomes Errbacked with the error
\* of an input that has failed, keeps that error, and once J is Errbacked no
\* step invokes a listener registered on J (progress, partial result,
\* success callback or error handler).
C11_WhenIgnoresEventsAfterFailure ==
    [][whens # <<>> =>
          /\ Fails(whens[1].d) =>
                \E i \in 1..whens[1].totalDeferreds :
                    /\ nodes'[i].errbacked
                    /\ nodes'[whens[1].d].errbackError = nodes'[i].errbackError
          /\ nodes[whens[1].d].errbacked =>
                /\ nodes'[whens[1].d].errbackError = nodes[whens[1].d].errbackError
                /\ NewEvents(whens[1].d) = {}]_vars

\* --------------------------------------------------------------- select
\* the invocations so far of the abort listener l of node n
AbortEvents(n, l) ==
    {k \in DOMAIN log : log[k].ev = "abort" /\ log[k].n = n /\ log[k].i = l}
\* no argument of select is Errbacked
NoInputFailed == \A i \in SelectInputs : ~nodes[i].errbacked

\* C12: for W returned by select, once an input has won while no input is
\* Errbacked: every other input is Aborted unless it was resolved itself,
\* each abort listener of an Aborted input has been invoked once, W is
\* never Errbacked or Aborted, W is Callbacked only with the winner's first
\* value and is Callbacked when no timer is left, each callback of W and of
\* the inner Deferred of select is invoked at most once, and no second
\* resolution is attempted.
C12_SelectFirstWins ==
    (selects # <<>> /\ selects[1].done /\ NoInputFailed) =>
        LET W == SelectResult
            winner == selects[1].winner
            v == First(nodes[winner].callbackArgs)
        IN  /\ nodes[winner].callbacked
            /\ \A j \in SelectInputs \ {winner} :
                  /\ nodes[j].aborted \/ nodes[j].callbacked
                  /\ nodes[j].aborted =>
                        \A l \in 1..Len(nodes[j].abortFunctions) :
                            Cardinality(AbortEvents(j, l)) = 1
            /\ ~nodes[W].errbacked /\ ~nodes[W].aborted
            /\ nodes[W].callbacked => nodes[W].callbackArgs = <<v>>
            /\ timers = <<>> => nodes[W].callbacked
            /\ \A n \in {W, selects[1].d} : \A i \in 1..Len(nodes[n].callbackFunctions) :
                  /\ Cardinality(CallbackEvents(log, n, i)) <= 1
                  /\ \A k \in CallbackEvents(log, n, i) : log[k].args = <<v>>
                  /\ timers = <<>> => CallbackEvents(log, n, i) # {}
            /\ \A k \in DOMAIN log : log[k].ev # "uncaught"

\* C12 witness: select(d1, d2) with an abort listener on d2; both inputs
\* were given a result in the same turn, d1 with 1 and d2 with 0; d1 has won,
\* d2 is Aborted and its listener has fired, W is Callbacked with 1 and its
\* callback has been invoked.
C12_Witness ==
    /\ selects # <<>> /\ Len(selects[1].args) = 2
    /\ selects[1].winner = 1
    /\ nodes[1].callbackArgs = <<1>> /\ nodes[2].callbackArgs = <<0>>
    /\ nodes[2].aborted /\ AbortEvents(2, 1) # {}
    /\ nodes[SelectResult].callbacked
    /\ nodes[SelectResult].callbackArgs = <<1>>
    /\ CallbackEvents(log, SelectResult, 1) # {}
    /\ timers = <<>>

\* ------------------------------------------------------ late orIfError
\* the step registers a handler on node n
Registers(n) == Len(nodes'[n].errbackFunctions) > Len(nodes[n].errbackFunctions)
\* the invocations of a handler of node n that the step adds
NewErrbackEvents(n) ==
    {k \in NewEvents(n) : log'[k].ev = "errback"}

\* C13: orIfError(h) on a node that is Errbacked with e does not invoke h
\* in the same turn, and the tick that runs the timer it scheduled invokes
\* h with e.
C13_LateHandlerRunsAfterTick ==
    [][\A n \in Ids :
          /\ (nodes[n].errbacked /\ Registers(n)) => NewErrbackEvents(n) = {}
          /\ (/\ timers # <<>>
              /\ Head(timers).k = "orIfError" /\ Head(timers).n = n
              /\ Len(timers') < Len(timers)
              /\ ~nodes[n].aborted)
             => \E k \in NewErrbackEvents(n) :
                    /\ log'[k].i = Len(nodes[n].errbackFunctions)
                    /\ log'[k].args = <<nodes[n].errbackError>>
                    /\ log'[k].tick]_vars

\* -------------------------------------------------------------- finally
\* the invocations so far of the finally hook of node n
FinallyEvents(lg, n) == {k \in DOMAIN lg : lg[k].ev = "finally" /\ lg[k].n = n}
\* the step makes node n Callbacked
Succeeds(n) == ~nodes[n].callbacked /\ nodes'[n].callbacked

\* C14: a step that makes a node with a finally hook Callbacked or Errbacked
\* invokes the hook once, and the hook of a node is never invoked a second
\* time.
C14_FinallyRunsExactlyOnce ==
    [][\A n \in Ids :
          nodes[n].finallyFunction =>
              /\ (Succeeds(n) \/ Fails(n)) =>
                    Cardinality(FinallyEvents(log', n) \ FinallyEvents(log, n)) = 1
              /\ Cardinality(FinallyEvents(log', n)) <= 1]_vars

\* C19: a step that makes a node with a finally hook Callbacked invokes the
\* hook, invokes none of the node's success callbacks, and leaves every
\* descendant of the node as it was.
C19_FinallyStopsPropagation ==
    [][\A n \in Ids :
          (nodes[n].finallyFunction /\ Succeeds(n)) =>
              /\ \A k \in NewEvents(n) : log'[k].ev # "callback"
              /\ \E k \in NewEvents(n) : log'[k].ev = "finally"
              /\ \A c \in Descendants(nodes, n) : nodes'[c] = nodes[c]]_vars

\* C19 witness: a node with a finally hook and a child is Callbacked, its
\* hook has run, its callback has not, and the child is Pending.
C19_Witness ==
    \E n \in Ids :
        /\ nodes[n].finallyFunction /\ nodes[n].callbacked
        /\ FinallyEvents(log, n) # {}
        /\ Len(nodes[n].nextLinks) >= 1
        /\ CallbackEvents(log, n, 1) = {}
        /\ Pending(nodes[nodes[n].nextLinks[1]])

\* C18: a node that is Callbacked, Errbacked or Aborted has neither a root
\* nor a branch reference.
C18_TerminalNodesHaveNoBackReferences ==
    \A n \in Ids : ~Pending(nodes[n]) => nodes[n].root = 0 /\ nodes[n].branch = 0

\* ----------------------------------------------------- then after abort
\* a timer that then scheduled on the Aborted node n is still in the queue
AbortScheduled(n) ==
    \E k \in DOMAIN timers : timers[k].k = "thenAbort" /\ timers[k].n = n

\* C15: for a node that is Aborted and in no other terminal state: none of
\* its success callbacks is ever invoked (the children attached before the
\* abort are Aborted with the node, so this is about the callbacks attached
\* after it), and once the timers that then scheduled on the node have
\* run, every child of the node is Aborted.
C15_ThenOnAbortedNodeAbortsChild ==
    \A n \in Ids :
        (nodes[n].aborted /\ ~nodes[n].callbacked /\ ~nodes[n].errbacked) =>
            /\ \A i \in 1..Len(nodes[n].callbackFunctions) :
                  CallbackEvents(log, n, i) = {}
            /\ ~AbortScheduled(n) =>
                  \A i \in 1..Len(nodes[n].nextLinks) :
                      nodes[nodes[n].nextLinks[i]].aborted

\* ------------------------------------------------------ sibling branches
\* C16: the step that makes a node Callbacked invokes every one of its
\* success callbacks whose child is Pending, whatever the callbacks before
\* it did, and when such a callback throws and its child has a handler,
\* the handler observes the error it threw.
C16_SiblingBranchesIndependent ==
    [][\A n \in Ids :
          (Succeeds(n) /\ ~nodes[n].finallyFunction) =>
              \A i \in 1..Len(nodes[n].callbackFunctions) :
                  Pending(nodes[nodes[n].nextLinks[i]]) =>
                      /\ \E k \in NewEvents(n) :
                             log'[k].ev = "callback" /\ log'[k].i = i
                      /\ (/\ nodes[n].callbackFunctions[i].k = "throw"
                          /\ HasHandler(nodes, nodes[n].nextLinks[i]))
                         => \E k \in NewErrbackEvents(nodes[n].nextLinks[i]) :
                                log'[k].args = <<nodes[n].callbackFunctions[i].a>>]_vars

\* ------------------------------------------------------- branch pointers
\* C17: while every node of the tree under the Deferred 1 is Pending, the
\* branch of a node with parent P is the node itself if P has two or more
\* children, and the branch of P otherwise.
C17_BranchPointerInvariant ==
    (\A n \in Ids : Pending(nodes[n])) =>
        \A c \in Ids \ {1} :
            nodes[c].branch =
                IF Len(nodes[ParentIn(nodes, c)].nextLinks) >= 2
                THEN c
                ELSE nodes[ParentIn(nodes, c)].branch

\* ---------------------------------------------------------- late then
\* C20: the tick that runs the timer of a then made on a Callbacked node
\* invokes the callback with the recorded result and changes no node; and
\* a Pending child of a Callbacked node (a child attached after the
\* propagation) stays Pending and none of its callbacks is invoked.
C20_LateThenChildStaysPending ==
    [][/\ (/\ timers # <<>>
           /\ Head(timers).k = "thenCallback"
           /\ Len(timers') < Len(timers))
          => /\ log' = Append(log, Event("callback", Head(timers).n, Head(timers).i,
                                        nodes[Head(timers).n].callbackArgs, TRUE))
             /\ nodes' = nodes
       /\ \A c \in Ids \ {1} :
              (nodes[ParentIn(nodes, c)].callbacked /\ Pending(nodes[c])) =>
                  Pending(nodes'[c]) /\ NewEvents(c) = {}]_vars

\* C20 witness: the Deferred 1 is Callbacked with 1; a callback attached to
\* it afterwards has been invoked with 1, its child is Pending and has a
\* callback of its own that has not been invoked, and no timer is left.
C20_Witness ==
    /\ nodes[1].callbacked /\ nodes[1].callbackArgs = <<1>> /\ timers = <<>>
    /\ \E i \in 1..Len(nodes[1].nextLinks) :
           /\ \E k \in CallbackEvents(log, 1, i) : log[k].args = <<1>>
           /\ Pending(nodes[nodes[1].nextLinks[i]])
           /\ Len(nodes[nodes[1].nextLinks[i]].callbackFunctions) >= 1
           /\ NeverInvoked(nodes[1].nextLinks[i])

====
